---------------------------- MODULE Spec2Model ----------------------------
(***************************************************************************)
(* Model of assets/send_email_with_pdf.py: one run of the script, from     *)
(* the configuration check in main() to sys.exit in the __main__ block.    *)
(*                                                                         *)
(* File sizes are counted in units of 16 KiB (64 units = 1 MiB), so that   *)
(* get_file_size_mb's round(bytes / 2^20, 1) is an exact integer           *)
(* computation; size_mb values are tenths of a MB (450 = 45.0 MB).         *)
(***************************************************************************)
EXTENDS Integers, Sequences, FiniteSets, TLC

\* ------------------------------------------------------------ constants
ATTACH_LIMIT_MB == 45
MAX_RETRIES == 1
RETRY_DELAY == 3

\* ------------------------------------------------------------ bounds
MaxPdf == 1          \* PDFs directly in the pdf directory, and in its subdirectories
MaxAlbums == 1       \* album directories holding images
MaxFsChanges == 1    \* writes to the archive by another process during the run

\* Archive sizes in 16 KiB units: 1.0 MB, 45.0 MB exactly, 45.047 (rounds to
\* 45.0), 45.0625 (rounds to 45.1), 45.25 (a tie, rounds half-even to 45.2).
ZipSizes == {64, 2880, 2883, 2884, 2896}

None == "None"

VARIABLES
    \* configuration (module-level constants read from the environment)
    EMAIL_FROM, EMAIL_TO, EMAIL_PASS, OUTPUT_FORMAT,
    \* filesystem
    pdfDir,           \* [exists, top, sub]: PDFs in JM_DOWNLOAD_DIR/pdf and below it
    albums,           \* album directories with images under JM_DOWNLOAD_DIR
    archive,          \* the archive file of the mode: [exists, size, ver]
    nextVer,          \* next content identity for a written archive
    fsChanges,        \* writes by another process so far
    \* main() and its handlers
    pc, pdf_files, album_list, attachment_path, size_mb, is_large,
    title, content, success,
    \* send_email frame
    arg_attachment, retry_count, smtp_conn, msg,
    \* observations
    events,           \* "attempt", "ok" | "auth" | "fail", "sleep" in order
    sentMsgs,         \* messages handed to smtp_conn.send_message
    opened, quitCalled, elapsed,
    calls,            \* calls of send_email from main
    scans,            \* directory scans started
    scanResult,       \* "pending", "empty", "found" or "error"
    zipResult,        \* create_pdf_zip: "pending", "skipped", "built" or "exception"
    archiveWrites,    \* archives created or deleted by this run
    exit_code, interrupted, escaped

cfgVars == <<EMAIL_FROM, EMAIL_TO, EMAIL_PASS, OUTPUT_FORMAT>>
dirVars == <<pdfDir, albums>>
fsVars == <<pdfDir, albums, archive, nextVer, fsChanges>>
mainVars == <<pdf_files, album_list, attachment_path, size_mb, is_large,
              title, content, success>>
sendVars == <<arg_attachment, retry_count, smtp_conn, msg>>
smtpObs == <<events, sentMsgs, opened, quitCalled, elapsed>>
obsVars == <<smtpObs, calls, scans, scanResult, zipResult, archiveWrites>>
endVars == <<exit_code, interrupted, escaped>>
vars == <<cfgVars, fsVars, pc, mainVars, sendVars, obsVars, endVars>>

\* ------------------------------------------------------------ pure helpers

\* get_file_size_mb: round(size_bytes / (1024 * 1024), 1), in tenths of a MB.
\* Python's round() rounds an exact tie to the even neighbour.
RoundTenthsMB(units) ==
    LET n == units * 10
        q == n \div 64
        r == n % 64
    IN  IF r < 32 THEN q
        ELSE IF r > 32 THEN q + 1
        ELSE IF q % 2 = 0 THEN q ELSE q + 1

get_file_size_mb(file) == RoundTenthsMB(file.size)

LimitTenths == ATTACH_LIMIT_MB * 10

\* handle_pdf_mode / handle_images_mode: is_large_file = size_mb > ATTACH_LIMIT_MB
IsLargeGE(s) == s >= LimitTenths
IsLarge(s) == s > LimitTenths

\* send_email: if attach_size_mb <= ATTACH_LIMIT_MB
FitsLimit(s) == s <= LimitTenths

\* main: if not all([EMAIL_FROM, EMAIL_TO, EMAIL_PASS])
ConfigCompleteNoPass == EMAIL_FROM # "" /\ EMAIL_TO # ""
ConfigComplete == EMAIL_FROM # "" /\ EMAIL_TO # "" /\ EMAIL_PASS # ""

\* scan_files(pdf_dir, ['pdf']): rglob('*.pdf') below an existing directory
ScanCount(d) == IF d.exists THEN d.top + d.sub ELSE 0

\* create_pdf_zip: not pdf_path.exists() or not list(pdf_path.glob('*.pdf'))
ZipPrecondition(d) == d.exists /\ d.top > 0

\* send_email: if retry_count < MAX_RETRIES
ShouldRetryLE(rc) == rc <= MAX_RETRIES
ShouldRetry(rc) == rc < MAX_RETRIES

\* send_email: which handler takes a failure ("auth" -> except
\* SMTPAuthenticationError, anything else -> except Exception)
IsTerminalNever(kind) == FALSE
IsTerminal(kind) == kind = "auth"

\* send_email: time.sleep(RETRY_DELAY) before the recursive call
SleepAfterNone(rc) == 0
SleepAfter(rc) == RETRY_DELAY

\* __main__: sys.exit(main()) / except KeyboardInterrupt: 1 / except Exception: 0
ExitCodeForPropagate(how) == IF how = "return" THEN 0 ELSE 1
ExitCodeFor(how) == IF how = "interrupt" THEN 1 ELSE 0

\* main: the attachment argument handed to send_email
\* images: if is_large or not attachment_path -> none; pdf: if is_large -> none
DispatchArg(path, large) == IF large \/ path = None THEN None ELSE path

\* main (pdf_only, attachment_path is None): send_email(title, content)
NoticeArgArchive == "archive"
NoticeArg == None

NoArchive == [exists |-> FALSE, size |-> 0, ver |-> 0]
NoText == [kind |-> None, count |-> 0, size_mb |-> 0, is_large |-> FALSE,
           found |-> FALSE]
NoMsg == [title |-> NoText, content |-> NoText, attachments |-> <<>>]

\* build_email_content_pdf / build_email_content_images / the notice text:
\* what the text depends on
Text(kind, count, size, large, found) ==
    [kind |-> kind, count |-> count, size_mb |-> size, is_large |-> large,
     found |-> found]

\* send_email: the attachment parts of the message built from the disk
AttachmentParts(path, file) ==
    IF path # None /\ file.exists /\ FitsLimit(get_file_size_mb(file))
    THEN <<[name |-> path, ver |-> file.ver, size |-> file.size]>>
    ELSE <<>>

\* ------------------------------------------------------------ initial state
Init ==
    /\ EMAIL_FROM \in {"", "from"}
    /\ EMAIL_TO \in {"", "to"}
    /\ EMAIL_PASS \in {"", "pass"}
    /\ OUTPUT_FORMAT \in {"pdf_only", "images_only"}
    /\ pdfDir \in [exists : {TRUE}, top : 0..MaxPdf, sub : 0..MaxPdf]
                  \cup {[exists |-> FALSE, top |-> 0, sub |-> 0]}
    /\ albums \in 0..MaxAlbums
    /\ archive \in {NoArchive} \cup [exists : {TRUE}, size : ZipSizes, ver : {1}]
    /\ nextVer = 2
    /\ fsChanges = 0
    /\ pc = "start"
    /\ pdf_files = 0
    /\ album_list = 0
    /\ attachment_path = None
    /\ size_mb = 0
    /\ is_large = FALSE
    /\ title = NoText
    /\ content = NoText
    /\ success = FALSE
    /\ arg_attachment = None
    /\ retry_count = 0
    /\ smtp_conn = None
    /\ msg = NoMsg
    /\ events = <<>>
    /\ sentMsgs = <<>>
    /\ opened = 0
    /\ quitCalled = 0
    /\ elapsed = 0
    /\ calls = 0
    /\ scans = 0
    /\ scanResult = "pending"
    /\ zipResult = "pending"
    /\ archiveWrites = 0
    /\ exit_code = -1          \* the process has not exited
    /\ interrupted = FALSE
    /\ escaped = None

\* ------------------------------------------------------------ __main__ exits
\* An exception leaves main(): except Exception -> sys.exit(0)
EscapeMain ==
    /\ pc' = "exit"
    /\ escaped' = "exception"
    /\ exit_code' = ExitCodeFor("exception")
    /\ UNCHANGED interrupted

\* main() returns 0: sys.exit(exit_code)
ReturnMain ==
    /\ pc' = "exit"
    /\ exit_code' = ExitCodeFor("return")
    /\ UNCHANGED <<interrupted, escaped>>

\* ------------------------------------------------------------ main()
\* main, lines 433-444: the configuration check and the mode branch
ConfigCheck ==
    /\ pc = "start"
    /\ IF ~ConfigComplete
       THEN ReturnMain
       ELSE /\ pc' = IF OUTPUT_FORMAT = "images_only" THEN "aggregate" ELSE "scan_pdf"
            /\ UNCHANGED endVars
    /\ UNCHANGED <<cfgVars, fsVars, mainVars, sendVars, obsVars>>

\* handle_pdf_mode, lines 350-357: scan_files(pdf_dir, ['pdf']); an OSError of the
\* directory walk is not caught anywhere below __main__
ScanPdf ==
    /\ pc = "scan_pdf"
    /\ scans' = scans + 1
    /\ \E io \in {"ok", "oserror"} :
         IF io = "oserror"
         THEN /\ EscapeMain
              /\ scanResult' = "error"
              /\ UNCHANGED mainVars
         ELSE /\ pdf_files' = ScanCount(pdfDir)
              /\ scanResult' = IF ScanCount(pdfDir) = 0 THEN "empty" ELSE "found"
              /\ pc' = IF ScanCount(pdfDir) = 0 THEN "notice" ELSE "create_zip"
              /\ UNCHANGED <<album_list, attachment_path, size_mb, is_large,
                             title, content, success>>
              /\ UNCHANGED endVars
    /\ UNCHANGED <<cfgVars, fsVars, sendVars>>
    /\ UNCHANGED <<smtpObs, calls, zipResult, archiveWrites>>

\* create_pdf_zip, called from handle_pdf_mode line 371.  The precondition returns
\* False before the try; inside the try the old archive is removed and a new one
\* made, and any exception is reported as False.
CreatePdfZip ==
    /\ pc = "create_zip"
    /\ IF ~ZipPrecondition(pdfDir)
       THEN /\ pc' = "notice"
            /\ zipResult' = "skipped"
            /\ UNCHANGED <<archive, nextVer, archiveWrites>>
       ELSE \E how \in {"built", "remove_fails", "make_fails"}, s \in ZipSizes :
              \/ /\ how = "built"
                 /\ archive' = [exists |-> TRUE, size |-> s, ver |-> nextVer]
                 /\ nextVer' = nextVer + 1
                 /\ archiveWrites' = archiveWrites + 1
                 /\ zipResult' = "built"
                 /\ pc' = "check_zip"
              \/ /\ how = "remove_fails"
                 /\ archive.exists
                 /\ zipResult' = "exception"
                 /\ pc' = "notice"
                 /\ UNCHANGED <<archive, nextVer, archiveWrites>>
              \/ /\ how = "make_fails"
                 /\ archive' = NoArchive
                 /\ archiveWrites' = archiveWrites + (IF archive.exists THEN 1 ELSE 0)
                 /\ zipResult' = "exception"
                 /\ pc' = "notice"
                 /\ UNCHANGED nextVer
    /\ UNCHANGED <<cfgVars, dirVars, fsChanges, mainVars, sendVars, endVars>>
    /\ UNCHANGED <<smtpObs, calls, scans, scanResult>>

\* handle_pdf_mode, lines 376-383, then main, lines 470-473: the size of the
\* archive, is_large and the text of build_email_content_pdf
CheckZipSize ==
    /\ pc = "check_zip"
    /\ IF ~archive.exists
       THEN /\ EscapeMain
            /\ UNCHANGED mainVars
       ELSE /\ attachment_path' = "archive"
            /\ size_mb' = get_file_size_mb(archive)
            /\ is_large' = IsLarge(get_file_size_mb(archive))
            /\ title' = Text("pdf", pdf_files, 0, FALSE, FALSE)
            /\ content' = Text("pdf", pdf_files, get_file_size_mb(archive),
                               IsLarge(get_file_size_mb(archive)), TRUE)
            /\ pc' = "dispatch"
            /\ UNCHANGED <<pdf_files, album_list, success>>
            /\ UNCHANGED endVars
    /\ UNCHANGED <<cfgVars, fsVars, sendVars, obsVars>>

\* main, lines 462-467: no archive in PDF mode; the notice is sent with no
\* attachment argument and main returns 0 whatever send_email returns
SendNotice ==
    /\ pc = "notice"
    /\ title' = Text("notice", 0, 0, FALSE, FALSE)
    /\ content' = Text("notice", 0, 0, FALSE, FALSE)
    /\ arg_attachment' = NoticeArg
    /\ retry_count' = 0
    /\ calls' = calls + 1
    /\ pc' = "se_build"
    /\ UNCHANGED <<pdf_files, album_list, attachment_path, size_mb, is_large, success>>
    /\ UNCHANGED <<smtp_conn, msg>>
    /\ UNCHANGED <<cfgVars, fsVars, endVars>>
    /\ UNCHANGED <<smtpObs, scans, scanResult, zipResult, archiveWrites>>

\* handle_images_mode, line 392: get_album_info(JM_DOWNLOAD_DIR)
HandleImagesScan ==
    /\ pc = "aggregate"
    /\ scans' = scans + 1
    /\ \E io \in {"ok", "oserror"} :
         IF io = "oserror"
         THEN /\ EscapeMain
              /\ scanResult' = "error"
              /\ UNCHANGED mainVars
         ELSE /\ album_list' = albums
              /\ scanResult' = IF albums = 0 THEN "empty" ELSE "found"
              /\ pc' = "img_archive"
              /\ UNCHANGED <<pdf_files, attachment_path, size_mb, is_large,
                             title, content, success>>
              /\ UNCHANGED endVars
    /\ UNCHANGED <<cfgVars, fsVars, sendVars>>
    /\ UNCHANGED <<smtpObs, calls, zipResult, archiveWrites>>

\* handle_images_mode, lines 394-424 (both branches locate the archive the same
\* way), then main, lines 448-450: build_email_content_images
HandleImagesArchive ==
    /\ pc = "img_archive"
    /\ attachment_path' = IF archive.exists THEN "archive" ELSE None
    /\ size_mb' = IF archive.exists THEN get_file_size_mb(archive) ELSE 0
    /\ is_large' = IF archive.exists THEN IsLarge(get_file_size_mb(archive)) ELSE FALSE
    /\ title' = Text("images", album_list, 0, FALSE, FALSE)
    /\ content' = Text("images", album_list,
                       IF archive.exists THEN get_file_size_mb(archive) ELSE 0,
                       IF archive.exists THEN IsLarge(get_file_size_mb(archive)) ELSE FALSE,
                       archive.exists)
    /\ pc' = "dispatch"
    /\ UNCHANGED <<pdf_files, album_list, success>>
    /\ UNCHANGED <<cfgVars, fsVars, sendVars, obsVars, endVars>>

\* main, lines 454-457 and 477-480: the call of send_email
Dispatch ==
    /\ pc = "dispatch"
    /\ arg_attachment' = DispatchArg(attachment_path, is_large)
    /\ retry_count' = 0
    /\ calls' = calls + 1
    /\ pc' = "se_build"
    /\ UNCHANGED <<smtp_conn, msg>>
    /\ UNCHANGED <<cfgVars, fsVars, mainVars, endVars>>
    /\ UNCHANGED <<smtpObs, scans, scanResult, zipResult, archiveWrites>>

\* main, lines 467 and 484-489: return 0 whether success or not
MainReturn ==
    /\ pc = "after_send"
    /\ ReturnMain
    /\ UNCHANGED <<cfgVars, fsVars, mainVars, sendVars, obsVars>>

\* ------------------------------------------------------------ send_email()
\* An exception inside the try of send_email: the except clause that takes it
Fail(kind) ==
    /\ events' = Append(events, kind)
    /\ pc' = IF IsTerminal(kind) THEN "se_auth" ELSE "se_except"

\* send_email, lines 275-300: a fresh frame (smtp_conn = None) and the message,
\* built from the arguments and from the file on disk; reading the file may fail
BuildMessage ==
    /\ pc = "se_build"
    /\ smtp_conn' = None
    /\ \E io \in {"ok", "oserror"} :
         IF io = "oserror"
         THEN /\ AttachmentParts(arg_attachment, archive) # <<>>
              /\ events' = events \o <<"attempt", "fail">>
              /\ pc' = IF IsTerminal("fail") THEN "se_auth" ELSE "se_except"
              /\ msg' = NoMsg
         ELSE /\ msg' = [title |-> title, content |-> content,
                         attachments |-> AttachmentParts(arg_attachment, archive)]
              /\ events' = Append(events, "attempt")
              /\ pc' = "se_connect"
    /\ UNCHANGED <<arg_attachment, retry_count>>
    /\ UNCHANGED <<sentMsgs, opened, quitCalled, elapsed>>
    /\ UNCHANGED <<cfgVars, fsVars, mainVars, endVars>>
    /\ UNCHANGED <<calls, scans, scanResult, zipResult, archiveWrites>>

\* send_email, line 304: smtplib.SMTP_SSL(SMTP_HOST, SMTP_PORT, timeout=60)
Connect ==
    /\ pc = "se_connect"
    /\ \E net \in {"ok", "fail"} :
         IF net = "ok"
         THEN /\ smtp_conn' = "open"
              /\ opened' = opened + 1
              /\ pc' = "se_login"
              /\ UNCHANGED events
         ELSE /\ Fail("fail")
              /\ UNCHANGED <<smtp_conn, opened>>
    /\ UNCHANGED <<arg_attachment, retry_count, msg>>
    /\ UNCHANGED <<sentMsgs, quitCalled, elapsed>>
    /\ UNCHANGED <<cfgVars, fsVars, mainVars, endVars>>
    /\ UNCHANGED <<calls, scans, scanResult, zipResult, archiveWrites>>

\* send_email, line 305: smtp_conn.login(EMAIL_FROM, EMAIL_PASS)
Login ==
    /\ pc = "se_login"
    /\ \E net \in {"ok", "auth", "fail"} :
         IF net = "ok"
         THEN /\ pc' = "se_send"
              /\ UNCHANGED events
         ELSE Fail(net)
    /\ UNCHANGED <<sendVars, sentMsgs, opened, quitCalled, elapsed>>
    /\ UNCHANGED <<cfgVars, fsVars, mainVars, endVars>>
    /\ UNCHANGED <<calls, scans, scanResult, zipResult, archiveWrites>>

\* send_email, lines 309-310: smtp_conn.send_message(msg)
SendMessage ==
    /\ pc = "se_send"
    /\ sentMsgs' = Append(sentMsgs, msg)
    /\ \E net \in {"ok", "fail"} :
         IF net = "ok"
         THEN /\ events' = Append(events, "ok")
              /\ pc' = "se_quit"
         ELSE Fail("fail")
    /\ UNCHANGED <<sendVars, opened, quitCalled, elapsed>>
    /\ UNCHANGED <<cfgVars, fsVars, mainVars, endVars>>
    /\ UNCHANGED <<calls, scans, scanResult, zipResult, archiveWrites>>

\* try: smtp_conn.quit() / except: pass.  The bare except also takes a
\* KeyboardInterrupt raised while quitting.
Quit ==
    /\ smtp_conn' = "quit"
    /\ quitCalled' = quitCalled + 1
    /\ \E how \in {"ok", "error", "interrupt"} :
         interrupted' = (interrupted \/ how = "interrupt")
    /\ UNCHANGED <<exit_code, escaped>>

\* send_email, lines 312-318: close the connection and return True
QuitAfterSend ==
    /\ pc = "se_quit"
    /\ Quit
    /\ success' = TRUE
    /\ pc' = "after_send"
    /\ UNCHANGED <<pdf_files, album_list, attachment_path, size_mb, is_large,
                   title, content>>
    /\ UNCHANGED <<arg_attachment, retry_count, msg>>
    /\ UNCHANGED <<events, sentMsgs, opened, elapsed>>
    /\ UNCHANGED <<cfgVars, fsVars>>
    /\ UNCHANGED <<calls, scans, scanResult, zipResult, archiveWrites>>

\* send_email, lines 320-322: except smtplib.SMTPAuthenticationError: return False
AuthHandler ==
    /\ pc = "se_auth"
    /\ success' = FALSE
    /\ pc' = "after_send"
    /\ UNCHANGED <<pdf_files, album_list, attachment_path, size_mb, is_large,
                   title, content>>
    /\ UNCHANGED <<cfgVars, fsVars, sendVars, obsVars, endVars>>

\* send_email, lines 324-332: except Exception: close the connection if one is open
FailureHandler ==
    /\ pc = "se_except"
    /\ IF smtp_conn # None
       THEN Quit
       ELSE UNCHANGED <<smtp_conn, quitCalled, endVars>>
    /\ pc' = "se_retry"
    /\ UNCHANGED <<arg_attachment, retry_count, msg>>
    /\ UNCHANGED <<events, sentMsgs, opened, elapsed>>
    /\ UNCHANGED <<cfgVars, fsVars, mainVars>>
    /\ UNCHANGED <<calls, scans, scanResult, zipResult, archiveWrites>>

\* send_email, lines 335-342: retry or give up with False
RetryDecision ==
    /\ pc = "se_retry"
    /\ IF ShouldRetry(retry_count)
       THEN /\ retry_count' = retry_count + 1
            /\ pc' = "se_sleep"
            /\ UNCHANGED success
       ELSE /\ success' = FALSE
            /\ pc' = "after_send"
            /\ UNCHANGED retry_count
    /\ UNCHANGED <<pdf_files, album_list, attachment_path, size_mb, is_large,
                   title, content>>
    /\ UNCHANGED <<arg_attachment, smtp_conn, msg>>
    /\ UNCHANGED <<cfgVars, fsVars, obsVars, endVars>>

\* send_email, lines 338-339: time.sleep(RETRY_DELAY), then the recursive call
RetrySleep ==
    /\ pc = "se_sleep"
    /\ elapsed' = elapsed + SleepAfter(retry_count)
    /\ events' = IF SleepAfter(retry_count) > 0 THEN Append(events, "sleep") ELSE events
    /\ pc' = "se_build"
    /\ UNCHANGED <<sentMsgs, opened, quitCalled>>
    /\ UNCHANGED <<cfgVars, fsVars, mainVars, sendVars, endVars>>
    /\ UNCHANGED <<calls, scans, scanResult, zipResult, archiveWrites>>

\* __main__, lines 496-498: a KeyboardInterrupt is no Exception, so no handler of
\* main or send_email takes it (the bare except around quit() aside): exit status 1
KeyboardInterrupt ==
    /\ pc # "exit"
    /\ pc' = "exit"
    /\ interrupted' = TRUE
    /\ escaped' = "interrupt"
    /\ exit_code' = ExitCodeFor("interrupt")
    /\ UNCHANGED <<cfgVars, fsVars, mainVars, sendVars, obsVars>>

\* ------------------------------------------------------------ environment
\* Another process replaces or removes the archive file while the script runs
FsChange ==
    /\ pc # "exit"
    /\ fsChanges < MaxFsChanges
    /\ fsChanges' = fsChanges + 1
    /\ \/ /\ archive.exists
          /\ archive' = NoArchive
          /\ UNCHANGED nextVer
       \/ \E s \in ZipSizes :
            /\ archive' = [exists |-> TRUE, size |-> s, ver |-> nextVer]
            /\ nextVer' = nextVer + 1
    /\ UNCHANGED <<cfgVars, dirVars, pc, mainVars, sendVars, obsVars, endVars>>

\* ------------------------------------------------------------ specifications
Next ==
    \/ ConfigCheck
    \/ ScanPdf
    \/ CreatePdfZip
    \/ CheckZipSize
    \/ SendNotice
    \/ HandleImagesScan
    \/ HandleImagesArchive
    \/ Dispatch
    \/ BuildMessage
    \/ Connect
    \/ Login
    \/ SendMessage
    \/ QuitAfterSend
    \/ AuthHandler
    \/ FailureHandler
    \/ RetryDecision
    \/ RetrySleep
    \/ MainReturn
    \/ KeyboardInterrupt

NextEnv == Next \/ FsChange

\* The run with the download directory touched by this script alone
Spec == Init /\ [][Next]_vars

\* The run with another process writing the archive file meanwhile
SpecEnv == Init /\ [][NextEnv]_vars

\* The script is one sequential thread whose blocking calls all end (the SMTP
\* calls time out after 60 s, the sleep lasts RETRY_DELAY): it keeps stepping
SpecFair == Init /\ [][Next]_vars /\ WF_vars(Next)

TypeOK ==
    /\ pc \in {"start", "scan_pdf", "create_zip", "check_zip", "notice", "aggregate",
               "img_archive", "dispatch", "se_build", "se_connect", "se_login",
               "se_send", "se_quit", "se_auth", "se_except", "se_retry", "se_sleep",
               "after_send", "exit"}
    /\ retry_count \in 0..(MAX_RETRIES + 1)
    /\ smtp_conn \in {None, "open", "quit"}
    /\ success \in BOOLEAN
    /\ IF pc = "exit" THEN exit_code \in {0, 1} ELSE exit_code = -1
    /\ opened <= MAX_RETRIES + 1
    /\ quitCalled <= opened
    /\ scanResult \in {"pending", "empty", "found", "error"}
    /\ zipResult \in {"pending", "skipped", "built", "exception"}
    /\ Len(msg.attachments) <= 1

\* ------------------------------------------------------------ observations
IsOutcome(e) == e \in {"ok", "auth", "fail"}
IsAttempt(e) == e = "attempt"
IsSleep(e) == e = "sleep"
Outcomes == SelectSeq(events, IsOutcome)
Attempts == Len(SelectSeq(events, IsAttempt))
Delays == Len(SelectSeq(events, IsSleep))
Returned == pc = "after_send"
ConfigMissing == EMAIL_FROM = "" \/ EMAIL_TO = "" \/ EMAIL_PASS = ""
\* the pipeline found nothing to deliver: the scan or aggregation came back
\* empty, or (PDF mode) the notice branch of main was taken
NoPayload == scanResult = "empty" \/ pc = "notice" \/ title.kind = "notice"

\* ------------------------------------------------------------ claims

\* C1: a run that the user does not interrupt ends with exit status 0, whatever
\* happened before (configuration missing, nothing found, archive build failed,
\* send_email True or False, an exception escaping main); exit status 1 is
\* reached only through a KeyboardInterrupt.
C1_ExitStatus ==
    pc = "exit" =>
        /\ exit_code \in {0, 1}
        /\ ~interrupted => exit_code = 0
        /\ escaped = "exception" => exit_code = 0
        /\ exit_code = 1 => interrupted /\ escaped = "interrupt"

\* C1 witness: retries exhausted, nobody interrupted, exit status 0
C1_Witness ==
    /\ pc = "exit"
    /\ ~interrupted
    /\ Outcomes = <<"fail", "fail">>
    /\ ~success
    /\ exit_code = 0

\* C2 (state part): send_email never makes more than MAX_RETRIES+1 attempts, and
\* when every attempt failed with a non-authentication failure it has returned
\* False to main after exactly MAX_RETRIES+1 attempts, no exception having left it.
C2_AttemptsBounded ==
    /\ Attempts <= MAX_RETRIES + 1
    /\ Len(Outcomes) <= MAX_RETRIES + 1
    /\ (Returned /\ \A i \in 1..Len(Outcomes) : Outcomes[i] = "fail") =>
           /\ ~success
           /\ Attempts = MAX_RETRIES + 1
           /\ Len(Outcomes) = MAX_RETRIES + 1
           /\ escaped = None
    /\ (escaped = "exception" => calls = 0)

\* C2: a call of send_email ends (it returns to main, or the user interrupts
\* the run), never with more than MAX_RETRIES+1 attempts; with every attempt
\* failed (no authentication failure) it returns False after exactly
\* MAX_RETRIES+1 attempts and no exception leaves it.
C2_RetryExhaustion ==
    /\ []C2_AttemptsBounded
    /\ (pc = "se_build") ~> (pc \in {"after_send", "exit"})

\* C2 witness: every attempt failed and send_email has returned
C2_Witness ==
    /\ Returned
    /\ Len(Outcomes) = MAX_RETRIES + 1
    /\ \A i \in 1..Len(Outcomes) : Outcomes[i] = "fail"
    /\ ~success

\* C3: when send_email returns, the retry delays that elapsed number one less
\* than the attempts, each of RETRY_DELAY; a first attempt that failed (not an
\* authentication failure) followed by a successful one returns True after
\* exactly one delay, which lies between the failure and the second attempt.
C3_OneDelayPerRetry ==
    Returned =>
        /\ Delays = Attempts - 1
        /\ elapsed = RETRY_DELAY * (Attempts - 1)
        /\ Outcomes = <<"fail", "ok">> =>
               /\ success
               /\ elapsed = RETRY_DELAY
               /\ events = <<"attempt", "fail", "sleep", "attempt", "ok">>

\* C3 witness: first attempt failed, second succeeded
C3_Witness ==
    /\ Returned
    /\ Outcomes = <<"fail", "ok">>
    /\ success

\* C4: an authentication failure, on the first attempt or on a retry, is the
\* last thing the call does: no attempt and no delay follows it, and the call
\* returns False.
C4_AuthTerminal ==
    /\ \A i \in 1..Len(events) : events[i] = "auth" => i = Len(events)
    /\ (Returned /\ Len(events) > 0 /\ events[Len(events)] = "auth") => ~success
    /\ pc = "se_auth" => events[Len(events)] = "auth"

\* C4 witness: the retry failed with an authentication failure
C4_Witness ==
    /\ Returned
    /\ Outcomes = <<"fail", "auth">>
    /\ ~success
    /\ elapsed = RETRY_DELAY

\* C5: when send_email returns, quit() has been called on every connection
\* it opened.
C5_AllClosed == Returned => quitCalled = opened

\* C6: a message that is transmitted carries at most one attachment; when the
\* orchestrator located or built an archive, the message carries it exactly
\* when the archive's rounded size is <= ATTACH_LIMIT_MB, and that is exactly
\* when the orchestrator's is_large is false (the dispatcher's own check never
\* overrides the argument it was given); with no archive located it carries none.
C6_AttachmentDecision ==
    /\ \A i \in 1..Len(sentMsgs) :
         LET n == Len(sentMsgs[i].attachments) IN
         /\ n <= 1
         /\ IF attachment_path # None
            THEN /\ archive.exists
                 /\ n = 1 <=> RoundTenthsMB(archive.size) <= ATTACH_LIMIT_MB * 10
                 /\ n = 0 <=> is_large
                 /\ n = 1 => sentMsgs[i].attachments[1].ver = archive.ver
            ELSE n = 0
    /\ pc \in {"se_connect", "se_login", "se_send"} =>
         (arg_attachment # None <=> msg.attachments # <<>>)

\* C6 witness: an archive of exactly ATTACH_LIMIT_MB went out as the attachment
C6_Witness ==
    /\ sentMsgs # <<>>
    /\ archive.exists
    /\ archive.size = ATTACH_LIMIT_MB * 64
    /\ Len(sentMsgs[1].attachments) = 1
    /\ ~is_large

\* C7: with EMAIL_FROM, EMAIL_TO or EMAIL_PASS empty nothing is scanned, no
\* archive is created or deleted, no connection is opened, send_email is not
\* called, and the run, unless interrupted, exits with status 0.
C7_ConfigMissingSkips ==
    ConfigMissing =>
        /\ scans = 0
        /\ scanResult = "pending"
        /\ archiveWrites = 0
        /\ zipResult = "pending"
        /\ opened = 0
        /\ calls = 0
        /\ events = <<>>
        /\ sentMsgs = <<>>
        /\ pc \in {"start", "exit"}
        /\ (pc = "exit" /\ ~interrupted) => exit_code = 0

\* C7 witness: only the credential is missing and the run has exited with 0
C7_Witness ==
    /\ EMAIL_FROM # ""
    /\ EMAIL_TO # ""
    /\ EMAIL_PASS = ""
    /\ pc = "exit"
    /\ exit_code = 0

\* C8 as stated: with nothing found (no PDF, no album, or the archive build
\* failed in PDF mode) send_email is called once before the run ends and no
\* message it builds or transmits carries an attachment.
C8_NoPayloadNoAttachment ==
    NoPayload =>
        /\ (pc = "exit" /\ escaped = None) => calls = 1
        /\ msg.attachments = <<>>
        /\ \A i \in 1..Len(sentMsgs) : sentMsgs[i].attachments = <<>>

\* C8 as amended: with nothing found send_email is called once before the run
\* ends; in PDF mode no message carries an attachment; in image mode with no
\* album the message carries the pre-built archive exactly when that archive
\* exists with a rounded size <= ATTACH_LIMIT_MB.
C8_NoPayloadNotice ==
    NoPayload =>
        /\ (pc = "exit" /\ escaped = None) => calls = 1
        /\ calls <= 1
        /\ \A i \in 1..Len(sentMsgs) :
             IF OUTPUT_FORMAT = "images_only"
             THEN sentMsgs[i].attachments # <<>> <=>
                      (archive.exists /\ RoundTenthsMB(archive.size) <= ATTACH_LIMIT_MB * 10)
             ELSE sentMsgs[i].attachments = <<>>
        /\ OUTPUT_FORMAT # "images_only" => msg.attachments = <<>> /\ arg_attachment = None

\* C8 witness: PDF mode, PDFs were found but no archive could be built, a stale
\* archive lies at the target path, and the notice went out without it
C8_Witness ==
    /\ OUTPUT_FORMAT = "pdf_only"
    /\ scanResult = "found"
    /\ zipResult = "exception"
    /\ archive.exists
    /\ RoundTenthsMB(archive.size) <= ATTACH_LIMIT_MB * 10
    /\ sentMsgs # <<>>
    /\ sentMsgs[1].attachments = <<>>
    /\ pc = "exit"
    /\ escaped = None

\* C9: within one call of send_email every attempt transmits the same message
\* as the first, whatever happens to the archive file meanwhile, and at most
\* MAX_RETRIES+1 messages are transmitted.
C9_IdenticalMessage ==
    /\ Len(sentMsgs) <= MAX_RETRIES + 1
    /\ \A i \in 1..Len(sentMsgs) : sentMsgs[i] = sentMsgs[1]

\* C10: create_pdf_zip declines to build (without touching any archive) exactly
\* when the pdf directory is missing or holds no PDF by the Scanner's recursive
\* match; so in PDF mode, once the Scanner found a PDF and no exception occurred
\* in the build, the notice branch of main is not taken.
C10_SameMatch ==
    /\ zipResult = "skipped" => ScanCount(pdfDir) = 0
    /\ (OUTPUT_FORMAT = "pdf_only" /\ scanResult = "found" /\ zipResult # "exception") =>
           (pc # "notice" /\ title.kind # "notice")
=============================================================================
